---- MODULE Spec2Model ----
(***************************************************************************)
(* State-machine model of patchwork's active-learning controller           *)
(* (src/patchwork/_main.py, class PatchWork) and of the tabular samplers   *)
(* of src/patchwork/_sample.py.                                            *)
(*                                                                         *)
(* Indices are numpy's: items are 0..N-1 and a numpy array is a TLA+       *)
(* sequence holding the array's elements in order (array position p is     *)
(* sequence position p+1).  The batch size, which the source fixes at 16   *)
(* (self.M = 16, the literal 16 of the assert and of the binomial draw,    *)
(* the literal 15 of the prompt's range check), is the single scaled       *)
(* parameter M.  Reals are exact rationals <<numerator, denominator>>.     *)
(***************************************************************************)
EXTENDS Integers, Sequences, FiniteSets, TLC

\* ------------------------------------------------------------------ bounds
\* number of items (feature_vecs.shape[0])
N == 4
\* batch size (16 in the source, scaled)
M == 2
\* largest min_count the constructor is given
MaxMinCount == 2
\* longest list of numbers typed at the prompt
MaxInput == 2
\* most iterate calls followed that raise after their batch is drawn
MaxAborts == 2
\* most positive and most negative labels of a label vector given to
\* _training_set on its own
MaxPos == 3
MaxNeg == 100
\* number of items of the longer labelling run
NLong == 6
\* number of rows of a DataFrame
MaxRows == 2
\* largest number of samples asked of stratified_sample
MaxSamples == 2
\* the largest num_calls handed to __call__
MaxCalls == 3

\* ------------------------------------------------------------- value space
\* np.nan: a value that is none of -1, 0, 1
NaN == -9
Items == 0 .. (N - 1)
One == <<1, 1>>
\* epsilon: 0, 1/2, 1
Epsilons == {<<0, 1>>, <<1, 2>>, <<1, 1>>}
\* model.predict's outputs p = k/4 for k in PLevels (0 and 4 are the values
\* the clamp of lines 99-100 rewrites)
PLevels == {0, 1, 2, 4}

VARIABLES
  labels,             \* self.labels: Items -> {NaN, 0, 1}
  sample_weights,     \* self._sample_weights: Items -> rational
  unlabeled_indices,  \* self.unlabeled_indices: ascending sequence of items
  counter,            \* self.counter
  min_count,          \* self._min_count
  epsilon,            \* self._epsilon
  stratify,           \* self._stratify
  op,                 \* "idle", or the method whose call is at its end ("iterate",
                      \* "random_sample", "uncert_sample", "_training_set"), its
                      \* locals (the variables below) still in scope
  err,                \* "none", or the exception that ends the call
  branch,             \* "RandomPick", "ModelUpdate", or "none" when none was taken
  sample,             \* the batch the last call drew (a sequence of items)
  weights,            \* the weights uncert_sample returned with it
  Hu,                 \* H[self.unlabeled_indices] of the last uncert_sample call
  num_random,         \* the binomial draw of the last uncert_sample call
  positives,          \* the annotation of the last call: positions into sample
  gt_at_sample,       \* groundtruth[sample[s]] as line 144 read it; <<>> at the prompt
  train,              \* the index array `labeled` of the last _training_set call
  aborts,             \* iterate calls so far that raised after drawing their batch
  df,                 \* the DataFrame the functions of _sample.py are called on
  arg,                \* their second argument: the specifier s, or the sample count N
  ret,                \* what the last call of one of them returned
  call                \* the running __call__: its arguments and its loop position

vars == <<labels, sample_weights, unlabeled_indices, counter, min_count, epsilon,
          stratify, op, err, branch, sample, weights, Hu, num_random, positives,
          gt_at_sample, train, aborts, df, arg, ret, call>>

\* the controller holds no DataFrame
NoFrame == <<>>

\* an iterate call made on its own: its groundtruth argument is anything
AnyGroundtruth == [any |-> TRUE, given |-> FALSE, vec |-> <<>>]

\* no __call__ is running
NoCall ==
  [num_calls |-> 0, done |-> 0, groundtruth |-> AnyGroundtruth, fresh |-> FALSE,
   counter0 |-> 0]

\* ---------------------------------------------------------------- helpers
Range(s) == {s[i] : i \in 1 .. Len(s)}

Min2(a, b) == IF a < b THEN a ELSE b

Max2(a, b) == IF a > b THEN a ELSE b

\* sequences of length k over S without repetition
InjSeqs(S, k) ==
  {s \in [1 .. k -> S] : \A i, j \in 1 .. k : i # j => s[i] # s[j]}

\* the elements of a finite set of integers in ascending order: the i-th is
\* the one with i-1 smaller elements
SortedSeq(S) ==
  [i \in 1 .. Cardinality(S) |->
     CHOOSE x \in S : Cardinality({y \in S : y < x}) = i - 1]

\* (labels == v).sum()
Count(lab, v) == Cardinality({i \in DOMAIN lab : lab[i] = v})

\* np.arange(self.N)[np.isnan(self.labels)]
UnlabeledOf(lab) == SortedSeq({i \in DOMAIN lab : lab[i] = NaN})

\* x / e for rationals (weights[-num_random:] /= epsilon)
Div(x, e) == <<x[1] * e[2], x[2] * e[1]>>

\* ------------------------------------------------------------ the samplers
\* faulty variant: the draw made with replacement
RandomChoiceWithReplacement(pool, k) == [1 .. k -> Range(pool)]

\* np.random.choice(pool, size=k, replace=False): every ordered draw of k
\* distinct elements of pool
RandomChoice(pool, k) == InjSeqs(Range(pool), k)

\* PatchWork.random_sample: the draws it can return; none when the pool is
\* smaller than M (numpy raises ValueError)
random_sample(pool) == RandomChoice(pool, M)

\* lines 99-103: the binary entropy of p = k/4 after the clamp of 0 to
\* EPSILON and of 1 to 1-EPSILON, in millionths of a bit
Entropy(k) ==
  CASE k = 0 -> 181
    [] k = 1 -> 811278
    [] k = 2 -> 1000000
    [] k = 3 -> 811278
    [] k = 4 -> 181

RECURSIVE TopSeqsAscending(_, _, _)
\* faulty variant: the [::-1] of line 105 left out, so the smallest h come first
TopSeqsAscending(h, avail, k) ==
  IF k = 0 \/ avail = {} THEN {<<>>}
  ELSE UNION {{<<p>> \o t : t \in TopSeqsAscending(h, avail \ {p}, k - 1)} :
              p \in {q \in avail : \A x \in avail : h[q] <= h[x]}}

RECURSIVE TopSeqs(_, _, _)
\* H[...].argsort()[::-1][:k] as positions 1..Len(h): the k positions of
\* largest h in descending order of h, ties in any order (numpy's default
\* sort is not stable)
TopSeqs(h, avail, k) ==
  IF k = 0 \/ avail = {} THEN {<<>>}
  ELSE UNION {{<<p>> \o t : t \in TopSeqs(h, avail \ {p}, k - 1)} :
              p \in {q \in avail : \A x \in avail : h[q] >= h[x]}}

\* line 106: self.unlabeled_indices[highest_entropy[:self.M]]
highest_entropy(pool, h) ==
  {[i \in 1 .. Len(t) |-> pool[t[i]]] : t \in TopSeqs(h, 1 .. Len(pool), M)}

\* np.random.binomial(16, epsilon) for 0 < epsilon <= 1: its support
Binomial(n, eps) == IF eps[1] = eps[2] THEN {n} ELSE 0 .. n

\* faulty variant: the indices shuffled, the weights left in place
EpsGreedyWeightsInPlace(uncert_ind, r, pool, eps) ==
  {LET keep == SubSeq(uncert_ind, 1, Len(uncert_ind) - r)
       randpicks == SelectSeq(rand_ind, LAMBDA x : x \notin Range(keep))
       cat == keep \o SubSeq(randpicks, 1, Min2(r, Len(randpicks)))
       w == [i \in 1 .. M |-> IF i > M - r THEN Div(One, eps) ELSE One]
   IN [uncert_ind |-> [i \in 1 .. M |-> cat[order[i]]],
       weights |-> w,
       num_random |-> r] :
   rand_ind \in random_sample(pool), order \in InjSeqs(1 .. M, M)}

\* lines 111-118: the epsilon-greedy replacement of the last r entries of
\* uncert_ind and the common shuffle of indices and weights
EpsGreedy(uncert_ind, r, pool, eps) ==
  {LET keep == SubSeq(uncert_ind, 1, Len(uncert_ind) - r)
       randpicks == SelectSeq(rand_ind, LAMBDA x : x \notin Range(keep))
       cat == keep \o SubSeq(randpicks, 1, Min2(r, Len(randpicks)))
       w == [i \in 1 .. M |-> IF i > M - r THEN Div(One, eps) ELSE One]
   IN [uncert_ind |-> [i \in 1 .. M |-> cat[order[i]]],
       weights |-> [i \in 1 .. M |-> w[order[i]]],
       num_random |-> r] :
   rand_ind \in random_sample(pool), order \in InjSeqs(1 .. M, M)}

\* lines 97, 107-119: what uncert_sample returns once line 106 has set
\* uncert_ind to u
Mix(u, pool, eps) ==
  LET ones == [i \in 1 .. M |-> One]
      plain == [uncert_ind |-> u, weights |-> ones, num_random |-> 0]
  IN IF eps[1] > 0
     THEN UNION {IF r > 0 THEN EpsGreedy(u, r, pool, eps) ELSE {plain} :
                 r \in Binomial(M, eps)}
     ELSE {plain}

\* PatchWork.uncert_sample(eps) on the pool with entropies h (h[p] is the
\* entropy of pool[p]): every (uncert_ind, weights) it can return
uncert_sample(pool, h, eps) ==
  UNION {Mix(u, pool, eps) : u \in highest_entropy(pool, h)}

\* ------------------------------------------------------------ the controller
\* faulty variant: `and` in place of the `or` of line 125
CheckSufficiencyAnd(lab, mc) ==
  IF Count(lab, 0) < mc /\ Count(lab, 1) < mc THEN "RandomPick" ELSE "ModelUpdate"

\* line 125: the sufficiency test of iterate
CheckSufficiency(lab, mc) ==
  IF Count(lab, 0) < mc \/ Count(lab, 1) < mc THEN "RandomPick" ELSE "ModelUpdate"

\* what is typed at the prompt: a comma-separated list of numbers, or text
\* int() cannot parse
Replies ==
  {[ok |-> TRUE, nums |-> s] :
     s \in UNION {[1 .. k -> 0 .. (M + 1)] : k \in 0 .. MaxInput}}
  \cup {[ok |-> FALSE, nums |-> <<>>]}

\* PatchWork._get_input: the typed numbers minus one, or the error raised
get_input(reply) ==
  LET inpt == [i \in 1 .. Len(reply.nums) |-> reply.nums[i] - 1]
  IN IF ~reply.ok THEN [err |-> "ValueError", inpt |-> <<>>]
     ELSE IF \E i \in 1 .. Len(inpt) : inpt[i] < 0 \/ inpt[i] > M - 1
          THEN [err |-> "AssertionError: what is this crap", inpt |-> <<>>]
          ELSE [err |-> "none", inpt |-> inpt]

\* the entries of a groundtruth vector (-1 is what stratified_sample writes
\* for a missing label)
GtValues == {-1, 0, 1}

\* line 144: the positions s of sample with groundtruth[sample[s]] == 1
gt_positives(smp, gt) ==
  SelectSeq([i \in 1 .. Len(smp) |-> i - 1], LAMBDA s : gt[smp[s + 1]] = 1)

\* faulty variant: the label array rebuilt around the batch, earlier labels dropped
SetZeroRebuilt(lab, smp) == [i \in DOMAIN lab |-> IF i \in Range(smp) THEN 0 ELSE NaN]

\* line 147: self.labels[sample] = 0
SetZero(lab, smp) == [i \in DOMAIN lab |-> IF i \in Range(smp) THEN 0 ELSE lab[i]]

\* line 148: self.labels[sample[positives]] = 1
SetOne(lab, smp, pos) ==
  [i \in DOMAIN lab |->
     IF \E k \in 1 .. Len(pos) : smp[pos[k] + 1] = i THEN 1 ELSE lab[i]]

\* faulty variant: the weights stored at the batch positions, not at the
\* batch items
SetWeightsByPosition(sw, smp, w) ==
  [i \in DOMAIN sw |-> IF i < Len(w) THEN w[i + 1] ELSE sw[i]]

\* line 134: self._sample_weights[sample] = weights
SetWeights(sw, smp, w) ==
  [i \in DOMAIN sw |->
     IF \E k \in 1 .. Len(smp) : smp[k] = i
     THEN w[CHOOSE k \in 1 .. Len(smp) :
              smp[k] = i /\ \A j \in (k + 1) .. Len(smp) : smp[j] # i]
     ELSE sw[i]]

\* [s for _ in range(k)] concatenated
Repeat(s, k) == [i \in 1 .. (k * Len(s)) |-> s[((i - 1) % Len(s)) + 1]]

\* faulty variant: the ratio rounded up
class_imbalance_ceil(nneg, npos) == Max2((nneg + npos - 1) \div npos, 1)

\* line 90: max(int(len(neg_indices)/len(pos_indices)), 1)
class_imbalance(nneg, npos) == Max2(nneg \div npos, 1)

\* PatchWork._training_set: the index array `labeled` (the rows of the
\* training set in order), or the ZeroDivisionError of line 90
training_set(lab, strat) ==
  LET pos_indices == SortedSeq({i \in DOMAIN lab : lab[i] = 1})
      neg_indices == SortedSeq({i \in DOMAIN lab : lab[i] = 0})
  IN IF ~strat
     THEN [err |-> "none",
           labeled |-> SortedSeq({i \in DOMAIN lab : lab[i] # NaN})]
     ELSE IF Len(pos_indices) = 0
          THEN [err |-> "ZeroDivisionError", labeled |-> <<>>]
          ELSE [err |-> "none",
                labeled |-> Repeat(pos_indices,
                                   class_imbalance(Len(neg_indices), Len(pos_indices)))
                            \o neg_indices]

\* every H[self.unlabeled_indices] model.predict can lead to: position p
\* holds the entropy of pool[p] (predictions of labelled items are never read)
Entropies(pool) ==
  {[i \in 1 .. Len(pool) |-> Entropy(p[i])] : p \in [1 .. Len(pool) -> PLevels]}

\* faulty variant: lines 147 and 148 in the other order
LabelUpdateSwapped(lab, smp, pos) == SetZero(SetOne(lab, smp, pos), smp)

\* lines 147-148 in order
LabelUpdate(lab, smp, pos) == SetOne(SetZero(lab, smp), smp, pos)

\* the constructor, lines 21-37
Init ==
  /\ labels = [i \in Items |-> NaN]
  /\ sample_weights = [i \in Items |-> One]
  /\ unlabeled_indices = UnlabeledOf(labels)
  /\ counter = 0
  /\ min_count \in 1 .. MaxMinCount
  /\ epsilon \in Epsilons
  /\ stratify \in BOOLEAN
  /\ op = "idle"
  /\ err = "none"
  /\ branch = "none"
  /\ sample = <<>>
  /\ weights = <<>>
  /\ Hu = <<>>
  /\ num_random = 0
  /\ positives = <<>>
  /\ gt_at_sample = <<>>
  /\ train = <<>>
  /\ aborts = 0
  /\ df = NoFrame
  /\ call = NoCall
  /\ arg = <<>>
  /\ ret = <<>>

\* faulty variant: the counter incremented before the check that raises
RaiseAfterCount(msg, br, tr) ==
  /\ err' = msg
  /\ branch' = br
  /\ train' = tr
  /\ sample' = <<>>
  /\ weights' = <<>>
  /\ num_random' = 0
  /\ positives' = <<>>
  /\ gt_at_sample' = <<>>
  /\ counter' = counter + 1
  /\ UNCHANGED <<labels, sample_weights, unlabeled_indices, aborts>>

\* a call that raises msg before anything is drawn or written
Raise(msg, br, tr) ==
  /\ err' = msg
  /\ branch' = br
  /\ train' = tr
  /\ sample' = <<>>
  /\ weights' = <<>>
  /\ num_random' = 0
  /\ positives' = <<>>
  /\ gt_at_sample' = <<>>
  /\ UNCHANGED <<labels, sample_weights, unlabeled_indices, counter, aborts>>

\* every outcome of _get_input
Typed == {get_input(reply) : reply \in Replies}

\* the annotations of the batch smp, lines 141-144: in evaluation mode the
\* entries of groundtruth line 144 reads and the positives it computes from
\* them, otherwise what _get_input returns or raises
Annotations(smp) ==
  {[has_gt |-> TRUE, gt |-> [s \in 1 .. Len(smp) |-> g[smp[s]]], err |-> "none",
    inpt |-> gt_positives(smp, g)] : g \in [Range(smp) -> GtValues]}
  \cup {[has_gt |-> FALSE, gt |-> <<>>, err |-> t.err, inpt |-> t.inpt] : t \in Typed}

\* lines 145-151 of iterate: the label update, _update_unlabeled and the
\* counter.  An empty `positives` is a float64 array (np.array([])), which
\* numpy refuses as an index at line 148, after line 147 has written.
Annotate(smp, ann) ==
  /\ gt_at_sample' = ann.gt
  /\ positives' = ann.inpt
  /\ IF ann.err # "none"
     THEN /\ aborts < MaxAborts
          /\ aborts' = aborts + 1
          /\ err' = ann.err
          /\ UNCHANGED <<labels, unlabeled_indices, counter>>
     ELSE IF Len(ann.inpt) = 0
     THEN /\ aborts < MaxAborts
          /\ aborts' = aborts + 1
          /\ err' = "IndexError"
          /\ labels' = SetZero(labels, smp)
          /\ UNCHANGED <<unlabeled_indices, counter>>
     ELSE /\ err' = "none"
          /\ labels' = LabelUpdate(labels, smp, ann.inpt)
          /\ unlabeled_indices' = UnlabeledOf(labels')
          /\ counter' = counter + 1
          /\ aborts' = aborts

\* every uncert_ind line 106 can compute for the pool, over the predictions
\* model.predict can return
Ranked(pool) == UNION {highest_entropy(pool, h) : h \in Entropies(pool)}

\* the annotations of the batch smp when the groundtruth argument is g: the
\* test of line 141 takes the prompt when g is None and reads g otherwise
AnnotationsOf(smp, g) ==
  IF g.any
  THEN Annotations(smp)
  ELSE IF g.given
  THEN {a \in Annotations(smp) :
          a.has_gt /\ a.gt = [s \in 1 .. Len(smp) |-> g.vec[smp[s]]]}
  ELSE {a \in Annotations(smp) : ~a.has_gt}

\* the body of iterate(groundtruth), lines 123-151
iterate(g) ==
  /\ Hu' = <<>>
  /\ IF Len(unlabeled_indices) < M
     THEN Raise("AssertionError: not enough unlabeled samples", "none", <<>>)
     ELSE IF CheckSufficiency(labels, min_count) = "RandomPick"
     THEN \E smp \in random_sample(unlabeled_indices) :
            \E ann \in AnnotationsOf(smp, g) :
              /\ branch' = "RandomPick"
              /\ train' = <<>>
              /\ sample' = smp
              /\ weights' = <<>>
              /\ num_random' = 0
              /\ sample_weights' = sample_weights
              /\ Annotate(smp, ann)
     ELSE LET ts == training_set(labels, stratify)
          IN IF ts.err # "none"
             THEN Raise(ts.err, "ModelUpdate", <<>>)
             ELSE \E u \in Ranked(unlabeled_indices) :
                    \E res \in Mix(u, unlabeled_indices, epsilon) :
                      \E ann \in AnnotationsOf(res.uncert_ind, g) :
                        /\ branch' = "ModelUpdate"
                        /\ train' = ts.labeled
                        /\ sample' = res.uncert_ind
                        /\ weights' = res.weights
                        /\ num_random' = res.num_random
                        /\ sample_weights' =
                             SetWeights(sample_weights, res.uncert_ind, res.weights)
                        /\ Annotate(res.uncert_ind, ann)

\* PatchWork.iterate(groundtruth), with groundtruth or without
Iterate ==
  /\ op = "idle"
  /\ op' = "iterate"
  /\ UNCHANGED <<min_count, epsilon, stratify, df, arg, ret, call>>
  /\ iterate(AnyGroundtruth)

\* a call of the public method random_sample()
RandomSample ==
  /\ op = "idle"
  /\ op' = "random_sample"
  /\ Hu' = <<>>
  /\ UNCHANGED <<min_count, epsilon, stratify, df, arg, ret, call>>
  /\ IF Len(unlabeled_indices) < M
     THEN Raise("ValueError", "none", <<>>)
     ELSE \E smp \in random_sample(unlabeled_indices) :
            /\ err' = "none"
            /\ branch' = "none"
            /\ train' = <<>>
            /\ sample' = smp
            /\ weights' = <<>>
            /\ num_random' = 0
            /\ positives' = <<>>
            /\ gt_at_sample' = <<>>
            /\ UNCHANGED <<labels, sample_weights, unlabeled_indices, counter, aborts>>

\* the call returns or its exception propagates: the locals go out of scope
Return ==
  /\ op # "idle"
  /\ op = "__call__" => (err # "none" \/ call.done = call.num_calls)
  /\ op' = "idle"
  /\ call' = NoCall
  /\ err' = "none"
  /\ branch' = "none"
  /\ sample' = <<>>
  /\ weights' = <<>>
  /\ Hu' = <<>>
  /\ num_random' = 0
  /\ positives' = <<>>
  /\ gt_at_sample' = <<>>
  /\ train' = <<>>
  /\ arg' = <<>>
  /\ ret' = <<>>
  /\ UNCHANGED <<labels, sample_weights, unlabeled_indices, counter, min_count,
                 epsilon, stratify, aborts, df>>

Next == Iterate \/ RandomSample \/ Return

Spec == Init /\ [][Next]_vars

\* ------------------------------------------------------------- __call__
\* the groundtruth arguments of __call__: None, or a 0/1 label per item
Groundtruths ==
  {[any |-> FALSE, given |-> FALSE, vec |-> <<>>]}
  \cup {[any |-> FALSE, given |-> TRUE, vec |-> v] : v \in [DOMAIN labels -> {0, 1}]}

\* __call__(num_calls, groundtruth) is entered, line 153.  `fresh` and
\* `counter0` remember whether every item was unlabeled and what the counter
\* was when the call began.  testx and testy are None: the evaluation of
\* lines 156-158 touches nothing the controller reads.
Call ==
  /\ op = "idle"
  /\ op' = "__call__"
  /\ \E n \in 0 .. MaxCalls, g \in Groundtruths :
       call' = [num_calls |-> n, done |-> 0, groundtruth |-> g,
                fresh |-> \A i \in DOMAIN labels : labels[i] = NaN,
                counter0 |-> counter]
  /\ UNCHANGED <<labels, sample_weights, unlabeled_indices, counter, min_count,
                 epsilon, stratify, err, branch, sample, weights, Hu, num_random,
                 positives, gt_at_sample, train, aborts, df, arg, ret>>

\* one pass of the loop of lines 154-155: the next iterate(groundtruth) runs
\* when the one before has returned; an exception it raises leaves the loop
CallIterate ==
  /\ op = "__call__"
  /\ err = "none"
  /\ call.done < call.num_calls
  /\ iterate(call.groundtruth)
  /\ call' = [call EXCEPT !.done = IF err' = "none" THEN @ + 1 ELSE @]
  /\ UNCHANGED <<op, min_count, epsilon, stratify, df, arg, ret>>

NextCall == Call \/ CallIterate \/ Return

\* the constructor with epsilon = 1/2, then calls of the driver only
InitCall == Init /\ epsilon = <<1, 2>>

SpecCall == InitCall /\ [][NextCall]_vars

\* ------------------------------------------- uncert_sample called on its own
\* a controller whose unlabeled pool is any set of items
InitSampler ==
  /\ \E U \in SUBSET Items :
       /\ labels = [i \in Items |-> IF i \in U THEN NaN ELSE i % 2]
       /\ unlabeled_indices = SortedSeq(U)
  /\ sample_weights = [i \in Items |-> One]
  /\ counter = 0
  /\ min_count \in 1 .. MaxMinCount
  /\ epsilon \in Epsilons
  /\ stratify = TRUE
  /\ op = "idle"
  /\ err = "none"
  /\ branch = "none"
  /\ sample = <<>>
  /\ weights = <<>>
  /\ Hu = <<>>
  /\ num_random = 0
  /\ positives = <<>>
  /\ gt_at_sample = <<>>
  /\ train = <<>>
  /\ aborts = 0
  /\ df = NoFrame
  /\ call = NoCall
  /\ arg = <<>>
  /\ ret = <<>>

\* a call of the public method uncert_sample(self._epsilon); with a pool
\* smaller than M line 111 raises numpy's ValueError
UncertSample ==
  /\ op = "idle"
  /\ op' = "uncert_sample"
  /\ branch' = "none"
  /\ train' = <<>>
  /\ positives' = <<>>
  /\ gt_at_sample' = <<>>
  /\ UNCHANGED <<labels, sample_weights, unlabeled_indices, counter, min_count,
                 epsilon, stratify, aborts, df, arg, ret, call>>
  /\ \E h \in Entropies(unlabeled_indices) :
       /\ Hu' = h
       /\ \/ \E res \in uncert_sample(unlabeled_indices, h, epsilon) :
               /\ err' = "none"
               /\ sample' = res.uncert_ind
               /\ weights' = res.weights
               /\ num_random' = res.num_random
          \/ /\ epsilon[1] > 0
             /\ Len(unlabeled_indices) < M
             /\ err' = "ValueError"
             /\ sample' = <<>>
             /\ weights' = <<>>
             /\ num_random' \in Binomial(M, epsilon) \ {0}

NextSampler == UncertSample \/ RandomSample \/ Return

SpecSampler == InitSampler /\ [][NextSampler]_vars

\* ------------------------------------------- _training_set called on its own
\* the label vectors with p positive and n negative labels, the positive ones
\* first or last
TrainLabels ==
  {[i \in 0 .. (MaxPos + MaxNeg) |->
      IF pos_first
      THEN (IF i < p THEN 1 ELSE IF i < p + n THEN 0 ELSE NaN)
      ELSE (IF i < n THEN 0 ELSE IF i < n + p THEN 1 ELSE NaN)] :
   p \in 0 .. MaxPos, n \in 0 .. MaxNeg, pos_first \in BOOLEAN}

InitTrain ==
  /\ labels \in TrainLabels
  /\ unlabeled_indices = UnlabeledOf(labels)
  /\ sample_weights = [i \in DOMAIN labels |-> One]
  /\ counter = 0
  /\ min_count = 1
  /\ epsilon = <<0, 1>>
  /\ stratify \in BOOLEAN
  /\ op = "idle"
  /\ err = "none"
  /\ branch = "none"
  /\ sample = <<>>
  /\ weights = <<>>
  /\ Hu = <<>>
  /\ num_random = 0
  /\ positives = <<>>
  /\ gt_at_sample = <<>>
  /\ train = <<>>
  /\ aborts = 0
  /\ df = NoFrame
  /\ call = NoCall
  /\ arg = <<>>
  /\ ret = <<>>

\* a call of _training_set()
TrainingSet ==
  /\ op = "idle"
  /\ op' = "_training_set"
  /\ LET ts == training_set(labels, stratify)
     IN /\ err' = ts.err
        /\ train' = ts.labeled
  /\ UNCHANGED <<labels, sample_weights, unlabeled_indices, counter, min_count,
                 epsilon, stratify, branch, sample, weights, Hu, num_random,
                 positives, gt_at_sample, aborts, df, arg, ret, call>>

NextTrain == TrainingSet \/ Return

SpecTrain == InitTrain /\ [][NextTrain]_vars

\* ------------------------------------------------- a longer labelling run
\* the constructor on NLong items, with min_count 1 and epsilon 1/2 (the
\* sizes at which two uncertainty batches follow a random one); of the
\* iterate calls that raise after drawing their batch none is followed here
InitLong ==
  /\ labels = [i \in 0 .. (NLong - 1) |-> NaN]
  /\ sample_weights = [i \in 0 .. (NLong - 1) |-> One]
  /\ unlabeled_indices = UnlabeledOf(labels)
  /\ counter = 0
  /\ min_count = 1
  /\ epsilon = <<1, 2>>
  /\ stratify \in BOOLEAN
  /\ op = "idle"
  /\ err = "none"
  /\ branch = "none"
  /\ sample = <<>>
  /\ weights = <<>>
  /\ Hu = <<>>
  /\ num_random = 0
  /\ positives = <<>>
  /\ gt_at_sample = <<>>
  /\ train = <<>>
  /\ aborts = MaxAborts
  /\ df = NoFrame
  /\ call = NoCall
  /\ arg = <<>>
  /\ ret = <<>>

SpecLong == InitLong /\ [][Next]_vars

\* ------------------------------------------------ _sample.py: the strings
\* A Python string is the sequence of its characters.
S_unlabeled == <<"u", "n", "l", "a", "b", "e", "l", "e", "d">>
S_fully_labeled == <<"f", "u", "l", "l", "y", " ", "l", "a", "b", "e", "l", "e", "d">>
S_partially_labeled ==
  <<"p", "a", "r", "t", "i", "a", "l", "l", "y", " ", "l", "a", "b", "e", "l", "e", "d">>
S_excluded == <<"e", "x", "c", "l", "u", "d", "e", "d">>
S_not_excluded == <<"n", "o", "t", " ">> \o S_excluded
S_validation == <<"v", "a", "l", "i", "d", "a", "t", "i", "o", "n">>
S_exclude == <<"e", "x", "c", "l", "u", "d", "e">>
S_filepath == <<"f", "i", "l", "e", "p", "a", "t", "h">>
S_viewpath == <<"v", "i", "e", "w", "p", "a", "t", "h">>
S_contains == <<"c", "o", "n", "t", "a", "i", "n", "s">>
S_doesnt_contain ==
  <<"d", "o", "e", "s", "n", "'", "t", " ", "c", "o", "n", "t", "a", "i", "n">>
Colon == <<":">>

\* p occurs in s at position i
StartsAt(p, s, i) ==
  /\ i + Len(p) - 1 <= Len(s)
  /\ \A k \in 1 .. Len(p) : s[i + k - 1] = p[k]

\* Python's `p in s` for strings
IsIn(p, s) == \E i \in 1 .. (Len(s) + 1) : StartsAt(p, s, i)

RECURSIVE Remove(_, _)
\* s.replace(old, ""): the occurrences of old removed from left to right
Remove(s, old) ==
  IF Len(s) = 0 THEN <<>>
  ELSE IF StartsAt(old, s, 1)
       THEN Remove(SubSeq(s, Len(old) + 1, Len(s)), old)
       ELSE <<s[1]>> \o Remove(Tail(s), old)

RECURSIVE Strip(_)
\* s.strip(): leading and trailing blanks removed
Strip(s) ==
  IF Len(s) = 0 THEN s
  ELSE IF s[1] = " " THEN Strip(Tail(s))
  ELSE IF s[Len(s)] = " " THEN Strip(SubSeq(s, 1, Len(s) - 1))
  ELSE s

\* ---------------------------------------------- _sample.py: the DataFrames
\* A DataFrame is a function from its column names to its columns; a column
\* is a sequence over the rows.  A cell of a class column is NaN, 0 or 1; a
\* cell of "exclude" or "validation" is 0 (False) or 1 (True), which is how
\* pandas compares them; a cell of "filepath" is APath.
APath == 2

PROTECTED_COLUMN_NAMES == {S_filepath, S_exclude, S_viewpath, S_validation}

\* the rows of a frame (it always has a "filepath" column)
Rows(d) == 1 .. Len(d[S_filepath])

\* [x for x in df.columns if x not in PROTECTED_COLUMN_NAMES]
label_types(d) == (DOMAIN d) \ PROTECTED_COLUMN_NAMES

\* find_unlabeled: pd.isnull(df[label_types]).values.prod(axis=1).astype(bool)
find_unlabeled(d) == [r \in Rows(d) |-> \A c \in label_types(d) : d[c][r] = NaN]

\* find_fully_labeled: pd.notnull(df[label_types]).values.prod(axis=1).astype(bool)
find_fully_labeled(d) == [r \in Rows(d) |-> \A c \in label_types(d) : d[c][r] # NaN]

\* faulty variant: `|` in place of the `&` of line 29
find_partially_labeled_or(d) ==
  [r \in Rows(d) |-> (~find_unlabeled(d)[r]) \/ (~find_fully_labeled(d)[r])]

\* find_partially_labeled
find_partially_labeled(d) ==
  [r \in Rows(d) |-> (~find_unlabeled(d)[r]) /\ (~find_fully_labeled(d)[r])]

\* df[name] == value cell by cell (pd.isnull(df[name]) for the value NaN), or
\* the KeyError of a missing column
ColumnTest(d, name, value) ==
  IF name \in DOMAIN d
  THEN [err |-> "none", mask |-> [r \in Rows(d) |-> d[name][r] = value]]
  ELSE [err |-> "KeyError", mask |-> <<>>]

\* find_subset(df, s), lines 47-69
find_subset(d, s) ==
  IF s = S_unlabeled THEN [err |-> "none", mask |-> find_unlabeled(d)]
  ELSE IF s = S_fully_labeled THEN [err |-> "none", mask |-> find_fully_labeled(d)]
  ELSE IF s = S_partially_labeled
       THEN [err |-> "none", mask |-> find_partially_labeled(d)]
  ELSE IF s = S_excluded THEN ColumnTest(d, S_exclude, 1)
  ELSE IF s = S_not_excluded THEN ColumnTest(d, S_exclude, 0)
  ELSE IF IsIn(S_unlabeled \o Colon, s)
       THEN ColumnTest(d, Strip(Remove(s, S_unlabeled \o Colon)), NaN)
  ELSE IF IsIn(S_contains, s)
       THEN ColumnTest(d, Strip(Remove(s, S_contains \o Colon)), 1)
  ELSE IF IsIn(S_doesnt_contain, s)
       THEN ColumnTest(d, Strip(Remove(s, S_doesnt_contain \o Colon)), 0)
  ELSE IF s = S_validation THEN ColumnTest(d, S_validation, 1)
  ELSE [err |-> "AssertionError: sorry can't help you", mask |-> <<>>]

\* class-column names: two plain ones, one that contains "contains" and one
\* that contains "unlabeled:"
C_A == <<"A">>
C_B == <<"B">>
C_containsX == S_contains \o <<"X">>
C_unlabeledA == S_unlabeled \o Colon \o C_A

ClassNames == {C_A, C_B, C_containsX, C_unlabeledA}

\* the sets of class columns of the frames looked at
ColumnSets == {{}, {C_A}, {C_A, C_B}, {C_containsX}, {C_unlabeledA}}

\* every frame of MaxRows rows with the class columns cols
Frames(cols) ==
  {[c \in {S_filepath, S_exclude, S_validation} \cup cols |->
      IF c = S_filepath THEN [r \in 1 .. MaxRows |-> APath]
      ELSE IF c = S_exclude THEN e
      ELSE IF c = S_validation THEN v
      ELSE L[c]] :
   e \in [1 .. MaxRows -> {0, 1}], v \in [1 .. MaxRows -> {0, 1}],
   L \in [cols -> [1 .. MaxRows -> {NaN, 0, 1}]]}

\* the specifiers find_subset's docstring lists, for every class name
Recognized ==
  {S_unlabeled, S_fully_labeled, S_partially_labeled, S_excluded, S_not_excluded,
   S_validation}
  \cup {S_unlabeled \o Colon \o c : c \in ClassNames}
  \cup {S_contains \o Colon \o c : c \in ClassNames}
  \cup {S_doesnt_contain \o Colon \o c : c \in ClassNames}

\* other strings: "", "labeled", "Acontains:", "contains A", "xunlabeled:A"
Unrecognized ==
  {<<>>, SubSeq(S_unlabeled, 3, 9), C_A \o S_contains \o Colon,
   S_contains \o <<" ">> \o C_A, <<"x">> \o S_unlabeled \o Colon \o C_A}

Specifiers == Recognized \cup Unrecognized

\* no controller is involved in a call of _sample.py
NoController ==
  /\ labels = <<>>
  /\ sample_weights = <<>>
  /\ unlabeled_indices = <<>>
  /\ counter = 0
  /\ min_count = 1
  /\ epsilon = <<0, 1>>
  /\ stratify = FALSE
  /\ branch = "none"
  /\ sample = <<>>
  /\ weights = <<>>
  /\ Hu = <<>>
  /\ num_random = 0
  /\ positives = <<>>
  /\ gt_at_sample = <<>>
  /\ train = <<>>
  /\ aborts = 0
  /\ call = NoCall

InitSubset ==
  /\ NoController
  /\ df \in UNION {Frames(cols) : cols \in ColumnSets}
  /\ arg = <<>>
  /\ ret = <<>>
  /\ op = "idle"
  /\ err = "none"

\* a call of find_subset(df, s)
FindSubset ==
  /\ op = "idle"
  /\ op' = "find_subset"
  /\ \E s \in Specifiers :
       /\ arg' = s
       /\ err' = find_subset(df, s).err
       /\ ret' = find_subset(df, s).mask
  /\ UNCHANGED <<labels, sample_weights, unlabeled_indices, counter, min_count,
                 epsilon, stratify, branch, sample, weights, Hu, num_random,
                 positives, gt_at_sample, train, aborts, df, call>>

\* a call of find_unlabeled(df), find_fully_labeled(df) or
\* find_partially_labeled(df)
FindLabeled ==
  /\ op = "idle"
  /\ \/ op' = "find_unlabeled" /\ ret' = find_unlabeled(df)
     \/ op' = "find_fully_labeled" /\ ret' = find_fully_labeled(df)
     \/ op' = "find_partially_labeled" /\ ret' = find_partially_labeled(df)
  /\ err' = "none"
  /\ arg' = <<>>
  /\ UNCHANGED <<labels, sample_weights, unlabeled_indices, counter, min_count,
                 epsilon, stratify, branch, sample, weights, Hu, num_random,
                 positives, gt_at_sample, train, aborts, df, call>>

NextSubset == FindSubset \/ FindLabeled \/ Return

SpecSubset == InitSubset /\ [][NextSubset]_vars

\* ------------------------------------------------------ stratified_sample
\* faulty variant: the validation rows not left out
not_excluded_only(d) == [r \in Rows(d) |-> d[S_exclude][r] = 0]

\* line 87: (df["exclude"] == False) & (df["validation"] == False)
not_excluded(d) == [r \in Rows(d) |-> d[S_exclude][r] = 0 /\ d[S_validation][r] = 0]

\* faulty variant: the filter of the positive lists copied from the negative ones
HasPolarityZero(d, l, z) == \E r \in Rows(d) : not_excluded(d)[r] /\ d[l][r] = 0

\* lines 98 and 102: (df[l][not_excluded] == z).sum() > 0
HasPolarity(d, l, z) == \E r \in Rows(d) : not_excluded(d)[r] /\ d[l][r] = z

\* lines 96-103: file_lists[z], as a function from the classes listed for
\* polarity z to their rows index[(df[l] == z) & not_excluded]
file_lists(d, z) ==
  [l \in {c \in label_types(d) : HasPolarity(d, c, z)} |->
     {r \in Rows(d) : d[l][r] = z /\ not_excluded(d)[r]}]

\* lines 119-121: the labels of row ind with NaN mapped to -1
y_vector(d, ind) ==
  [l \in label_types(d) |-> IF d[l][ind] = NaN THEN -1 ELSE d[l][ind]]

RECURSIVE Sampling(_, _, _)
\* lines 109-121: the results n more passes of the loop can lead to from the
\* lists acc built so far.  zs and cls are the z and the class drawn in each
\* pass; np.random.choice raises ValueError on an empty array.
Sampling(d, n, acc) ==
  IF n = 0 THEN {acc}
  ELSE UNION {
    LET fl == file_lists(d, z)
        drawn == [acc EXCEPT !.zs = Append(@, z)]
    IN IF DOMAIN fl = {}
       THEN {[drawn EXCEPT !.err = "ValueError"]}
       ELSE UNION {
         IF fl[l] = {}
         THEN {[drawn EXCEPT !.err = "ValueError", !.cls = Append(@, l)]}
         ELSE UNION {Sampling(d, n - 1,
                              [drawn EXCEPT !.cls = Append(@, l),
                                            !.inds = Append(@, ind),
                                            !.outlist = Append(@, d[S_filepath][ind]),
                                            !.ys = Append(@, y_vector(d, ind))]) :
                     ind \in fl[l]} :
         l \in DOMAIN fl} :
    z \in {0, 1}}

\* stratified_sample(df, N, return_indices): every result; np.stack raises
\* ValueError on the empty list of N = 0
stratified_sample(d, n, return_indices) ==
  LET start == [err |-> "none", zs |-> <<>>, cls |-> <<>>, inds |-> <<>>,
                outlist |-> <<>>, ys |-> <<>>, out |-> <<>>]
  IN {IF x.err # "none" THEN x
      ELSE IF Len(x.ys) = 0 THEN [x EXCEPT !.err = "ValueError"]
      ELSE [x EXCEPT !.out = IF return_indices THEN x.inds ELSE x.outlist] :
      x \in Sampling(d, n, start)}

InitStrat ==
  /\ NoController
  /\ df \in UNION {Frames(cols) : cols \in {{}, {C_A}, {C_A, C_B}}}
  /\ arg = <<>>
  /\ ret = <<>>
  /\ op = "idle"
  /\ err = "none"

\* a call of stratified_sample(df, N, return_indices)
StratifiedSample ==
  /\ op = "idle"
  /\ op' = "stratified_sample"
  /\ \E n \in 0 .. MaxSamples, return_indices \in BOOLEAN :
       /\ arg' = [N |-> n, return_indices |-> return_indices]
       /\ \E x \in stratified_sample(df, n, return_indices) :
            /\ ret' = x
            /\ err' = x.err
  /\ UNCHANGED <<labels, sample_weights, unlabeled_indices, counter, min_count,
                 epsilon, stratify, branch, sample, weights, Hu, num_random,
                 positives, gt_at_sample, train, aborts, df, call>>

NextStrat == StratifiedSample \/ Return

SpecStrat == InitStrat /\ [][NextStrat]_vars

\* ================================================================ claims
NotEnoughMsg == "AssertionError: not enough unlabeled samples"

\* the call that has just ended is an iterate call
IterateStep == op = "idle" /\ op' = "iterate"

\* the entries of a sequence are pairwise distinct
Distinct(s) == \A i, j \in 1 .. Len(s) : i # j => s[i] # s[j]

\* how often x occurs in the sequence s
Occurrences(s, x) == Cardinality({k \in 1 .. Len(s) : s[k] = x})

\* the items of the batch smp that the annotation pos marks positive
Marked(smp, pos) == {smp[pos[k] + 1] : k \in 1 .. Len(pos)}

\* ----------------------------------------------------------------- C1
\* 20 labels, 9 of them positive and 11 negative
NineAndEleven == [i \in 0 .. 19 |-> IF i < 9 THEN 1 ELSE 0]

\* C1: every iterate call that passes the pool-size assert takes RandomPick
\* (random_sample, no training set built, no weight written) when the number
\* of 0 labels or the number of 1 labels is below min_count, and ModelUpdate
\* (training set built, uncert_sample's M weights returned) otherwise; with
\* min_count 10, 9 positives and 11 negatives the test yields RandomPick.
C1_BranchBySufficiency ==
  [][IterateStep /\ Len(unlabeled_indices) >= M
       => /\ branch' = (IF Count(labels, 0) < min_count \/ Count(labels, 1) < min_count
                        THEN "RandomPick" ELSE "ModelUpdate")
          /\ branch' = "RandomPick"
               => train' = <<>> /\ weights' = <<>> /\ sample_weights' = sample_weights
          /\ branch' = "ModelUpdate"
               => train' = training_set(labels, stratify).labeled /\ Len(weights') = M
          /\ CheckSufficiency(NineAndEleven, 10) = "RandomPick"]_vars

\* a RandomPick iteration started with enough labels of one value and too
\* few of the other (no call has raised, so the labels outside the batch are
\* those the iteration started with)
C1_Witness ==
  /\ op = "iterate" /\ branch = "RandomPick" /\ err = "none" /\ aborts = 0
  /\ \E v \in {0, 1} :
       /\ Cardinality({i \in Items \ Range(sample) : labels[i] = v}) >= min_count
       /\ Cardinality({i \in Items \ Range(sample) : labels[i] = 1 - v}) < min_count

\* ----------------------------------------------------------------- C2
\* C2: in every step, an item whose label is 0 or 1 keeps a label that is 0
\* or 1: no label goes back to NaN.
C2_NeverUnset ==
  [][\A i \in DOMAIN labels : labels[i] # NaN => labels'[i] \in {0, 1}]_vars

\* a completed iteration that left an earlier iteration's label in place
C2_Witness ==
  /\ op = "iterate" /\ err = "none" /\ counter >= 2
  /\ \E i \in Items \ Range(sample) : labels[i] \in {0, 1}

\* ----------------------------------------------------------------- C3
\* C3: in every state (after construction, after every iterate call, ended
\* by return or by exception) unlabeled_indices lists exactly the indices
\* whose label is NaN.
C3_UnlabeledExact == unlabeled_indices = UnlabeledOf(labels)

\* ----------------------------------------------------------------- C4
\* C4: random_sample, called on its own or by iterate's RandomPick branch
\* with at least M indices in unlabeled_indices, returns exactly M pairwise
\* distinct members of unlabeled_indices; the call on its own changes neither
\* labels nor unlabeled_indices.
C4_RandomSample ==
  [][/\ (op = "idle" /\ op' = "random_sample" /\ Len(unlabeled_indices) >= M)
          => /\ err' = "none"
             /\ Len(sample') = M
             /\ Distinct(sample')
             /\ Range(sample') \subseteq Range(unlabeled_indices)
             /\ labels' = labels
             /\ unlabeled_indices' = unlabeled_indices
     /\ (IterateStep /\ branch' = "RandomPick")
          => /\ Len(sample') = M
             /\ Distinct(sample')
             /\ Range(sample') \subseteq Range(unlabeled_indices)]_vars

\* random_sample has returned part of a pool larger than M, some items
\* being labelled already
C4_Witness ==
  /\ op = "random_sample" /\ err = "none"
  /\ Len(sample) = M /\ Len(unlabeled_indices) > M
  /\ \E i \in Items : labels[i] # NaN

\* ----------------------------------------------------------------- C5
\* C5: after every completed iteration no index of the batch is in
\* unlabeled_indices, the unlabeled count has dropped by exactly M, the
\* positive count has risen by the number of batch items marked positive and
\* the negative count by M minus that number, so that counter = k and exactly
\* k*M items are labelled after k completed iterations.
C5_CountsExact ==
  [][IterateStep /\ err' = "none"
       => LET marked == Cardinality(Marked(sample', positives'))
          IN /\ Range(sample') \cap Range(unlabeled_indices') = {}
             /\ Len(unlabeled_indices') = Len(unlabeled_indices) - M
             /\ Count(labels', 1) = Count(labels, 1) + marked
             /\ Count(labels', 0) = Count(labels, 0) + M - marked
             /\ counter' = counter + 1
             /\ Count(labels', 0) + Count(labels', 1) = counter' * M]_vars

\* ----------------------------------------------------------------- C6
\* C6: an iterate call that finds fewer than M indices in unlabeled_indices
\* raises the 'not enough unlabeled samples' assertion and nothing else
\* happens: no branch is taken, no batch drawn, no training set built, no
\* annotation read, and labels, weights, pool and counter are unchanged.
C6_NotEnough ==
  [][IterateStep /\ Len(unlabeled_indices) < M
       => /\ err' = NotEnoughMsg
          /\ branch' = "none"
          /\ sample' = <<>>
          /\ train' = <<>>
          /\ positives' = <<>>
          /\ gt_at_sample' = <<>>
          /\ labels' = labels
          /\ sample_weights' = sample_weights
          /\ unlabeled_indices' = unlabeled_indices
          /\ counter' = counter]_vars

\* an iterate call has failed on a pool smaller than M
C6_Witness ==
  op = "iterate" /\ err = NotEnoughMsg /\ Len(unlabeled_indices) < M /\ counter >= 1

\* ----------------------------------------------------------------- C7
\* C7: an iterate call started with exactly M unlabeled items (and a valid
\* annotation) succeeds on either branch, draws all M of them and leaves the
\* unlabeled pool empty.
C7_ExactlyM ==
  [][(/\ IterateStep
      /\ unlabeled_indices = UnlabeledOf(labels)
      /\ Len(unlabeled_indices) = M
      /\ err' \notin {"ValueError", "AssertionError: what is this crap"})
       => /\ err' = "none"
          /\ Range(sample') = Range(unlabeled_indices)
          /\ unlabeled_indices' = <<>>]_vars

\* ----------------------------------------------------------------- C8
\* C8: a completed iteration in evaluation mode leaves label 1 on every batch
\* index whose groundtruth entry is 1, label 0 on every other batch index,
\* and every label outside the batch as it was.
C8_GroundTruthLabels ==
  [][IterateStep /\ err' = "none" /\ gt_at_sample' # <<>>
       => /\ \A s \in 1 .. Len(sample') :
               labels'[sample'[s]] = (IF gt_at_sample'[s] = 1 THEN 1 ELSE 0)
          /\ \A i \in Items \ Range(sample') : labels'[i] = labels[i]]_vars

\* a completed evaluation-mode iteration whose batch holds a positive and a
\* non-positive item, with labels outside the batch
C8_Witness ==
  /\ op = "iterate" /\ err = "none" /\ gt_at_sample # <<>>
  /\ \E s, t \in 1 .. Len(sample) : gt_at_sample[s] = 1 /\ gt_at_sample[t] # 1
  /\ \E i \in Items \ Range(sample) : labels[i] # NaN

\* ----------------------------------------------------------------- C9
\* C9: uncert_sample with epsilon = 0 on a pool of at least M indices returns
\* M pairwise distinct members of unlabeled_indices (unlabeled items, none
\* labelled), none of lower entropy than a member it left out, and M weights
\* that are all 1.
C9_TopByEntropy ==
  (op = "uncert_sample" /\ epsilon[1] = 0 /\ Len(unlabeled_indices) >= M)
    => /\ err = "none"
       /\ Len(sample) = M
       /\ Distinct(sample)
       /\ Range(sample) \subseteq Range(unlabeled_indices)
       /\ \A i \in Range(sample) : labels[i] = NaN
       /\ \A p, q \in 1 .. Len(unlabeled_indices) :
            (unlabeled_indices[p] \in Range(sample)
             /\ unlabeled_indices[q] \notin Range(sample)) => Hu[p] >= Hu[q]
       /\ weights = [i \in 1 .. M |-> One]

\* uncert_sample with epsilon = 0 has left out an unlabeled item of strictly
\* lower entropy than one it returned, some items being labelled
C9_Witness ==
  /\ op = "uncert_sample" /\ epsilon[1] = 0 /\ err = "none"
  /\ \E i \in Items : labels[i] # NaN
  /\ \E p, q \in 1 .. Len(unlabeled_indices) :
       /\ unlabeled_indices[p] \in Range(sample)
       /\ unlabeled_indices[q] \notin Range(sample)
       /\ Hu[p] > Hu[q]

\* ---------------------------------------------------------------- C10
\* the training set built with stratification from at least one positive and
\* at least as many negatives repeats each positive k times and holds each
\* negative once
RepeatsPositives(k) ==
  /\ \A i \in DOMAIN labels :
       Occurrences(train, i) = (IF labels[i] = 1 THEN k
                                ELSE IF labels[i] = 0 THEN 1 ELSE 0)
  /\ Len(train) = Count(labels, 0) + k * Count(labels, 1)

\* a stratified _training_set call on labels whose positives are the minority
MinorityPositives ==
  /\ op = "_training_set" /\ stratify
  /\ Count(labels, 1) >= 1 /\ Count(labels, 1) <= Count(labels, 0)

CrapMsg == "AssertionError: what is this crap"

\* C11: an iterate call that ends with the 'not enough unlabeled samples'
\* assertion or with the prompt's out-of-range assertion leaves labels, the
\* sample weights, unlabeled_indices and counter as they were when it began.
C11_AbortAtomic ==
  [][IterateStep /\ err' \in {NotEnoughMsg, CrapMsg}
       => /\ labels' = labels
          /\ sample_weights' = sample_weights
          /\ unlabeled_indices' = unlabeled_indices
          /\ counter' = counter]_vars

\* ---------------------------------------------------------------- C12
\* C12 as stated: at the end of an iteration that drew an uncertainty batch
\* every item outside that batch has sample weight 1.
C12_OnlyLastBatch ==
  (op = "iterate" /\ branch = "ModelUpdate" /\ sample # <<>>)
    => \A i \in DOMAIN sample_weights :
         i \notin Range(sample) => sample_weights[i] = One

\* C12 amended: every sample weight is 1 after construction, and the weight
\* of an item changes only in an iteration whose uncertainty batch holds the
\* item, to the weight uncert_sample returned for it; an item no uncertainty
\* batch has drawn (never drawn, or drawn by RandomPick only) has weight 1,
\* and the weight of an earlier uncertainty batch stays until the item is
\* drawn again.
C12_OnlyUncertDraws ==
  /\ \A i \in DOMAIN sample_weights : sample_weights[i] = One
  /\ [][\A i \in DOMAIN sample_weights :
          sample_weights'[i] # sample_weights[i]
            => /\ IterateStep
               /\ branch' = "ModelUpdate"
               /\ \E k \in 1 .. Len(sample') :
                    sample'[k] = i /\ sample_weights'[i] = weights'[k]]_vars

\* an uncertainty batch has been drawn while an item of an earlier
\* uncertainty batch still carries the weight 1/epsilon
C12_Witness ==
  /\ op = "iterate" /\ branch = "ModelUpdate" /\ err = "none" /\ sample # <<>>
  /\ \E i \in DOMAIN sample_weights :
       i \notin Range(sample) /\ sample_weights[i] = Div(One, epsilon) /\ labels[i] # NaN

\* ---------------------------------------------------------------- C13
\* C13: whenever find_subset has been called with "contains:c" for a class
\* column c of the frame, that call and the calls with "doesn't contain:c"
\* and "unlabeled:c" all return masks, the first two masks are disjoint, and
\* a row is in one of them exactly when it is not in the third, i.e. exactly
\* when its cell in column c is not missing.
C13_ContainsPartition ==
  \A c \in label_types(df) :
    (op = "find_subset" /\ arg = S_contains \o Colon \o c)
      => LET no == find_subset(df, S_doesnt_contain \o Colon \o c)
             un == find_subset(df, S_unlabeled \o Colon \o c)
         IN /\ err = "none"
            /\ no.err = "none"
            /\ un.err = "none"
            /\ \A r \in Rows(df) :
                 /\ ~(ret[r] /\ no.mask[r])
                 /\ (ret[r] \/ no.mask[r]) <=> ~un.mask[r]
                 /\ (ret[r] \/ no.mask[r]) <=> (df[c][r] # NaN)

\* ---------------------------------------------------------------- C14
AssertMsg == "AssertionError: sorry can't help you"

\* C14: a find_subset call with a string that is none of the recognized
\* specifiers ends with the assertion of line 69; it returns no mask and
\* looks up no column.
C14_UnsupportedFails ==
  (op = "find_subset" /\ arg \in Unrecognized) => err = AssertMsg

\* ---------------------------------------------------------------- C15
\* row r is neither excluded nor a validation row
Eligible(r) == df[S_exclude][r] = 0 /\ df[S_validation][r] = 0

\* some class has an eligible row of polarity z
PolarityPresent(z) ==
  \E l \in label_types(df), r \in Rows(df) : Eligible(r) /\ df[l][r] = z

\* C15: a stratified_sample(df, N) call that returns, returns N samples and N
\* label vectors; each sampled row is neither excluded nor a validation row
\* and holds the drawn polarity (0 or 1) in the drawn class column; its
\* label vector holds, for every class column, -1 where the row's label is
\* missing and the row's 0 or 1 otherwise.  The call returns whenever N >= 1
\* and both polarities are present.
C15_StratifiedRows ==
  op = "stratified_sample"
    => /\ (arg.N >= 1 /\ PolarityPresent(0) /\ PolarityPresent(1)) => err = "none"
       /\ err = "none"
            => /\ Len(ret.out) = arg.N
               /\ Len(ret.ys) = arg.N
               /\ \A k \in 1 .. arg.N :
                    LET r == ret.inds[k]
                    IN /\ r \in Rows(df)
                       /\ Eligible(r)
                       /\ ret.zs[k] \in {0, 1}
                       /\ ret.cls[k] \in label_types(df)
                       /\ df[ret.cls[k]][r] = ret.zs[k]
                       /\ ret.out[k] = (IF arg.return_indices THEN r
                                        ELSE df[S_filepath][r])
                       /\ DOMAIN ret.ys[k] = label_types(df)
                       /\ \A l \in label_types(df) :
                            /\ ret.ys[k][l] \in {-1, 0, 1}
                            /\ ret.ys[k][l] = -1 <=> df[l][r] = NaN
                            /\ ret.ys[k][l] # -1 => ret.ys[k][l] = df[l][r]

\* two samples were returned from a frame with an excluded row or a
\* validation row that holds a label, the sampled row having a missing label
C15_Witness ==
  /\ op = "stratified_sample" /\ err = "none" /\ arg.N >= 2
  /\ \E r \in Rows(df), l \in label_types(df) : ~Eligible(r) /\ df[l][r] # NaN
  /\ \E k \in 1 .. arg.N, l \in label_types(df) : ret.ys[k][l] = -1

\* ---------------------------------------------------------------- C16
\* C16: in a stratified_sample call, a pass of the loop that draws a polarity
\* no class has an eligible row of ends the call with an error: that pass is
\* the last one, it emits no sample, and nothing is returned; and every class
\* drawn for a polarity has an eligible row of that polarity.
C16_EmptyPolarityFails ==
  op = "stratified_sample"
    => /\ \A k \in 1 .. Len(ret.zs) :
            ~PolarityPresent(ret.zs[k])
              => /\ err = "ValueError"
                 /\ k = Len(ret.zs)
                 /\ Len(ret.inds) < k
                 /\ Len(ret.ys) < k
                 /\ ret.out = <<>>
       /\ \A k \in 1 .. Len(ret.cls) :
            \E r \in Rows(df) : Eligible(r) /\ df[ret.cls[k]][r] = ret.zs[k]

\* the second pass drew a polarity that no class has, after the first pass
\* had drawn a sample of the other polarity
C16_Witness ==
  /\ op = "stratified_sample" /\ err = "ValueError"
  /\ Len(ret.zs) = 2 /\ Len(ret.inds) = 1
  /\ ~PolarityPresent(ret.zs[2])
  /\ label_types(df) # {}

\* ---------------------------------------------------------------- C17
\* the position of item x in the pool
PoolPos(x) == CHOOSE p \in 1 .. Len(unlabeled_indices) : unlabeled_indices[p] = x

\* C17: uncert_sample with epsilon in (0,1] on a pool of at least M indices
\* returns M pairwise distinct unlabeled indices and M weights; num_random of
\* the returned positions (all M when epsilon = 1) carry the weight 1/epsilon
\* and the others the weight 1; the items at the others are of no lower
\* entropy than any pool item that is not one of them, the replacements
\* included; and writing the weights at the batch items, as iterate does,
\* gives every batch item the weight returned at its position and leaves
\* every other item's weight alone.
C17_EpsilonGreedy ==
  (op = "uncert_sample" /\ epsilon[1] > 0 /\ Len(unlabeled_indices) >= M)
    => /\ err = "none"
       /\ Len(sample) = M
       /\ Len(weights) = M
       /\ Distinct(sample)
       /\ Range(sample) \subseteq Range(unlabeled_indices)
       /\ \A i \in Range(sample) : labels[i] = NaN
       /\ num_random \in 0 .. M
       /\ epsilon = One => num_random = M
       /\ \E R \in SUBSET (1 .. M) :
            /\ Cardinality(R) = num_random
            /\ \A k \in 1 .. M :
                 weights[k] = (IF k \in R THEN Div(One, epsilon) ELSE One)
            /\ \A k \in (1 .. M) \ R :
                 \A q \in 1 .. Len(unlabeled_indices) :
                   unlabeled_indices[q] \notin {sample[j] : j \in (1 .. M) \ R}
                     => Hu[PoolPos(sample[k])] >= Hu[q]
       /\ LET written == SetWeights(sample_weights, sample, weights)
          IN /\ \A k \in 1 .. M : written[sample[k]] = weights[k]
             /\ \A i \in Items \ Range(sample) : written[i] = sample_weights[i]

\* epsilon = 1/2: one item kept and one replaced by a random item that is
\* not among the M of highest entropy, returned in the shuffled order
C17_Witness ==
  /\ op = "uncert_sample" /\ err = "none" /\ epsilon = <<1, 2>>
  /\ num_random = 1 /\ Len(unlabeled_indices) > M
  /\ weights[1] = Div(One, epsilon)
  /\ \E q \in 1 .. Len(unlabeled_indices) :
       /\ unlabeled_indices[q] \notin Range(sample)
       /\ Hu[q] > Hu[PoolPos(sample[1])]

\* ---------------------------------------------------------------- C18
\* C18: the training set built with stratification from labels with at
\* least one negative and more positives than negatives repeats each negative
\* ceil(#positives/#negatives) times and holds each positive once.
C18_MinorityNegatives ==
  (/\ op = "_training_set" /\ stratify
   /\ Count(labels, 0) >= 1 /\ Count(labels, 0) < Count(labels, 1))
    => LET k == (Count(labels, 1) + Count(labels, 0) - 1) \div Count(labels, 0)
       IN /\ \A i \in DOMAIN labels :
               Occurrences(train, i) = (IF labels[i] = 0 THEN k
                                        ELSE IF labels[i] = 1 THEN 1 ELSE 0)
          /\ Len(train) = Count(labels, 1) + k * Count(labels, 0)

\* ---------------------------------------------------------------- C19
\* C19: an iterate call that drew a batch and got a valid annotation marking
\* no item positive completes: every batch item is labelled 0,
\* unlabeled_indices is recomputed without them, and counter is incremented.
C19_NoPositives ==
  [][(/\ IterateStep
      /\ sample' # <<>>
      /\ positives' = <<>>
      /\ err' \notin {"ValueError", CrapMsg})
       => /\ err' = "none"
          /\ \A i \in Range(sample') : labels'[i] = 0
          /\ unlabeled_indices' = UnlabeledOf(labels')
          /\ Range(unlabeled_indices') \cap Range(sample') = {}
          /\ counter' = counter + 1]_vars

\* ---------------------------------------------------------------- C20
\* exactly one of three truth values holds
ExactlyOne(a, b, c) == (a /\ ~b /\ ~c) \/ (~a /\ b /\ ~c) \/ (~a /\ ~b /\ c)

\* C20 as stated: for every frame, with or without class columns, every row
\* is in exactly one of the masks of find_unlabeled, find_fully_labeled and
\* find_partially_labeled.
C20_ExactlyOneMask ==
  op = "find_partially_labeled"
    => \A r \in Rows(df) :
         ExactlyOne(find_unlabeled(df)[r], find_fully_labeled(df)[r], ret[r])

\* C20 amended: for every frame with at least one class column every row is
\* in exactly one of the three masks; in a frame without class columns every
\* row is in the masks of find_unlabeled and of find_fully_labeled and not in
\* that of find_partially_labeled.
C20_ExactlyOneWithClasses ==
  op = "find_partially_labeled"
    => \A r \in Rows(df) :
         IF label_types(df) # {}
         THEN ExactlyOne(find_unlabeled(df)[r], find_fully_labeled(df)[r], ret[r])
         ELSE find_unlabeled(df)[r] /\ find_fully_labeled(df)[r] /\ ~ret[r]

\* find_partially_labeled has returned for a frame with a partially labelled
\* row and a row that is not
C20_Witness ==
  /\ op = "find_partially_labeled"
  /\ Cardinality(label_types(df)) = 2
  /\ \E r, q \in Rows(df) :
       /\ ret[r] /\ ~ret[q]
       /\ \E l \in label_types(df) : df[l][r] = NaN
       /\ \E l \in label_types(df) : df[l][r] # NaN

\* ---------------------------------------------------------------- C21
\* C21: every index an iterate call draws, on either branch, is unlabeled
\* when the call begins, and no iterate call changes a label that is 0 or 1.
C21_WriteOnce ==
  [][IterateStep
       => /\ \A i \in Range(sample') : labels[i] = NaN
          /\ \A i \in DOMAIN labels : labels[i] \in {0, 1} => labels'[i] = labels[i]]_vars

\* ---------------------------------------------------------------- C22
\* the loop of __call__ has ended, by returning or by an exception
CallEnded == op = "__call__" /\ (err # "none" \/ call.done = call.num_calls)

\* floor(N / M) over the items of this controller
FullBatches == Cardinality(DOMAIN labels) \div M

\* C22: a __call__(num_calls) that begins with every item unlabeled, and whose
\* annotator gives well-formed answers, completes min(num_calls, floor(N/M))
\* iterations: when num_calls <= floor(N/M) it ends without an error and the
\* counter has grown by num_calls; otherwise it ends with the "not enough
\* unlabeled samples" error after floor(N/M) completed iterations, whose
\* floor(N/M) * M labels are kept.
C22_DriverCompletes ==
  (/\ CallEnded
   /\ call.fresh
   /\ err \notin {"ValueError", CrapMsg})
    => IF call.num_calls <= FullBatches
       THEN /\ err = "none"
            /\ call.done = call.num_calls
            /\ counter = call.counter0 + call.num_calls
       ELSE /\ err = NotEnoughMsg
            /\ call.done = FullBatches
            /\ counter = call.counter0 + FullBatches
            /\ Cardinality({i \in DOMAIN labels : labels[i] \in {0, 1}})
                 = FullBatches * M

====
